---- MODULE Spec2Model ----
(***************************************************************************)
(* A model of yourls-mcp: the configuration loader (config/__init__.py),   *)
(* the YOURLS API client (api/client.py) and the four MCP tool handlers    *)
(* (mcp/server.py).                                                        *)
(*                                                                         *)
(* Python values are modelled as follows.  A dict is a function whose      *)
(* domain is the set of its keys, so `k in d` is k \in DOMAIN d and        *)
(* d.get(k, x) is Get(d, k, x).  None is the string None, which no input   *)
(* set uses as a value.  A call that returns is Returned(v) and a call     *)
(* that raises is Raised(type, message).                                   *)
(***************************************************************************)
EXTENDS Integers, Sequences, FiniteSets, TLC

VARIABLES
    config_path,  \* the argument given to load_config / create_server
    files,        \* the file system: existing candidate path |-> parsed YAML
    environ,      \* os.environ (after load_dotenv): set variable |-> value
    loaded,       \* the outcome of a direct load_config(config_path) call
    server,       \* the outcome of create_server(config_path)
    built,        \* a YourlsClient(...) construction: its arguments and outcome
    now,          \* the wall clock, in ticks of 1/TicksPerSecond second
    last,         \* the last tool invocation: arguments, request, outcome, result
    calls         \* the invocations entered so far, in flight or done, in order

startup_vars == <<config_path, files, environ, loaded, server>>
serving_vars == <<built, now, last, calls>>
vars == <<config_path, files, environ, loaded, server, built, now, last, calls>>

----------------------------------------------------------------------------
(* Python values *)

None == "None"

\* Python truthiness of an Optional[str]: `if v:` / `not v`
Truthy(v) == v # None /\ v # ""

EmptyDict == <<>>

Get(d, k, default) == IF k \in DOMAIN d THEN d[k] ELSE default

\* d[k] = v
Put(d, k, v) == [x \in DOMAIN d \cup {k} |-> IF x = k THEN v ELSE d[x]]

\* d.update(e): the keys of e win
Update(d, e) == [x \in DOMAIN d \cup DOMAIN e |-> IF x \in DOMAIN e THEN e[x] ELSE d[x]]

Pending == [state |-> "pending"]
Returned(v) == [state |-> "returned", value |-> v]
Raised(type, msg) == [state |-> "raised", exc |-> type, message |-> msg]

\* sep.join(seq)
RECURSIVE Join(_, _)
Join(seq, sep) ==
    IF Len(seq) = 0 THEN ""
    ELSE IF Len(seq) = 1 THEN seq[1]
    ELSE seq[1] \o sep \o Join(Tail(seq), sep)

----------------------------------------------------------------------------
(* config/__init__.py *)

CwdConfig == "./config.yaml"
HomeConfig == "~/.config/yourls-mcp/config.yaml"

\* yaml.safe_load of a file that holds no document (empty, or comments only):
\* None.  It is kept apart from the None of the string arguments.
NoneConfig == [NoneType |-> TRUE]

\* paths = [config_path, cwd/config.yaml, ~/.config/yourls-mcp/config.yaml]
CandidatePaths(path) == <<path, CwdConfig, HomeConfig>>

\* for path in paths: if path and os.path.exists(path): config = yaml.safe_load(f); break
RECURSIVE FirstExisting(_, _)
FirstExisting(paths, fs) ==
    IF Len(paths) = 0 THEN EmptyDict
    ELSE IF Truthy(paths[1]) /\ paths[1] \in DOMAIN fs THEN fs[paths[1]]
    ELSE FirstExisting(Tail(paths), fs)

env_mapping ==
    << <<"YOURLS_API_URL",  <<"yourls", "api_url">> >>,
       <<"YOURLS_USERNAME", <<"yourls", "username">> >>,
       <<"YOURLS_PASSWORD", <<"yourls", "password">> >> >>

\* current = config; for key in path[:-1]: (create {} if absent; descend);
\* current[path[-1]] = value
RECURSIVE SetNested(_, _, _)
SetNested(d, path, value) ==
    IF Len(path) = 1 THEN Put(d, path[1], value)
    ELSE LET sub == IF path[1] \in DOMAIN d THEN d[path[1]] ELSE EmptyDict
         IN  Put(d, path[1], SetNested(sub, Tail(path), value))

\* for env_var, config_path in env_mapping.items(): if env_var in os.environ: ...
RECURSIVE ApplyEnv(_, _, _)
ApplyEnv(config, mapping, env) ==
    IF Len(mapping) = 0 THEN config
    ELSE LET env_var == mapping[1][1]
             path    == mapping[1][2]
             next    == IF env_var \in DOMAIN env
                        THEN SetNested(config, path, env[env_var])
                        ELSE config
         IN  ApplyEnv(next, Tail(mapping), env)

\* The first set variable makes the loop test `key not in current` on the
\* loaded document; when that is None (an empty file) the test raises.
load_config(path, fs, env) ==
    LET config  == FirstExisting(CandidatePaths(path), fs)
        any_set == \E i \in 1..Len(env_mapping) : env_mapping[i][1] \in DOMAIN env
    IN  IF config = NoneConfig /\ any_set
        THEN Raised("TypeError", "argument of type 'NoneType' is not iterable")
        ELSE Returned(ApplyEnv(config, env_mapping, env))

----------------------------------------------------------------------------
(* api/client.py: construction *)

signature_ttl_default == 43200

\* A constructor that rejects password mode only when both credentials are missing.
YourlsClient_both_missing(api_url, auth_method, username, password, signature_token, signature_ttl) ==
    LET self == [api_url         |-> api_url,
                 auth_method     |-> auth_method,
                 signature_token |-> signature_token,
                 signature_ttl   |-> signature_ttl]
    IN  IF auth_method = "password" THEN
            IF ~Truthy(username) /\ ~Truthy(password)
            THEN Raised("ValueError",
                        "Username and password are required for password authentication")
            ELSE Returned(Put(self, "auth", [username |-> username, password |-> password]))
        ELSE IF auth_method = "signature" THEN
            IF ~Truthy(signature_token)
            THEN Raised("ValueError",
                        "Signature token is required for signature authentication")
            ELSE Returned(Put(self, "auth", EmptyDict))
        ELSE Raised("ValueError",
                    "Invalid authentication method. Use 'password' or 'signature'")

YourlsClient(api_url, auth_method, username, password, signature_token, signature_ttl) ==
    LET self == [api_url         |-> api_url,
                 auth_method     |-> auth_method,
                 signature_token |-> signature_token,
                 signature_ttl   |-> signature_ttl]
    IN  IF auth_method = "password" THEN
            IF ~Truthy(username) \/ ~Truthy(password)
            THEN Raised("ValueError",
                        "Username and password are required for password authentication")
            ELSE Returned(Put(self, "auth", [username |-> username, password |-> password]))
        ELSE IF auth_method = "signature" THEN
            IF ~Truthy(signature_token)
            THEN Raised("ValueError",
                        "Signature token is required for signature authentication")
            ELSE Returned(Put(self, "auth", EmptyDict))
        ELSE Raised("ValueError",
                    "Invalid authentication method. Use 'password' or 'signature'")

----------------------------------------------------------------------------
(* api/client.py: requests *)

TicksPerSecond == 2

\* hashlib.md5(s.encode()).hexdigest(): the digest is not computed; it is an
\* opaque value determined by the digested string, distinct for distinct strings.
md5_hexdigest(s) == "md5(" \o s \o ")"

\* str(int(time.time())) when the clock shows tick t
unix_timestamp(t) == ToString(t \div TicksPerSecond)

\* A client that signs every request with the stamp of tick 0.
_get_signature_auth_cached(self, t) ==
    IF self.auth_method # "signature" THEN EmptyDict
    ELSE LET timestamp == ToString(0)
             signature == md5_hexdigest(timestamp \o self.signature_token)
         IN  [timestamp |-> timestamp, signature |-> signature]

_get_signature_auth(self, t) ==
    IF self.auth_method # "signature" THEN EmptyDict
    ELSE LET timestamp == unix_timestamp(t)
             signature == md5_hexdigest(timestamp \o self.signature_token)
         IN  [timestamp |-> timestamp, signature |-> signature]

\* A _request that adds the signature parameters in every mode.
request_params_always_signed(self, action, params, t) ==
    LET base      == Update([action |-> action, format |-> "json"], params)
        timestamp == unix_timestamp(t)
        signed    == [timestamp |-> timestamp,
                      signature |-> md5_hexdigest(timestamp \o self.signature_token)]
    IN  Update(Update(base, self.auth), signed)

\* The form data _request hands to requests.post at tick t.
request_params(self, action, params, t) ==
    LET base == Update([action |-> action, format |-> "json"], params)
    IN  IF self.auth_method = "password" THEN Update(base, self.auth)
        ELSE IF self.auth_method = "signature" THEN Update(base, _get_signature_auth(self, t))
        ELSE base

\* What requests.post(...) comes to: the connection fails, or a response arrives
\* with a status code and a body that is JSON (field json) or is not (field text).
\* response.raise_for_status() raises for 4xx and 5xx; response.json() raises on
\* a body that is not JSON.
_request_result(self, outcome) ==
    IF outcome.kind = "connection_error"
    THEN Raised("ConnectionError", "Connection refused: " \o self.api_url)
    ELSE IF 400 <= outcome.status_code /\ outcome.status_code < 500
    THEN Raised("HTTPError",
                ToString(outcome.status_code) \o " Client Error for url: " \o self.api_url)
    ELSE IF 500 <= outcome.status_code /\ outcome.status_code < 600
    THEN Raised("HTTPError",
                ToString(outcome.status_code) \o " Server Error for url: " \o self.api_url)
    ELSE IF "json" \notin DOMAIN outcome
    THEN Raised("JSONDecodeError", "Expecting value: line 1 column 1 (char 0)")
    ELSE Returned(outcome.json)

\* A shorten that tests `is not None` where the code tests truth.
shorten_params_not_none(url, keyword, title) ==
    LET p1 == [url |-> url]
        p2 == IF keyword # None THEN Put(p1, "keyword", keyword) ELSE p1
    IN  IF title # None THEN Put(p2, "title", title) ELSE p2

\* params of YourlsClient.shorten
shorten_params(url, keyword, title) ==
    LET p1 == [url |-> url]
        p2 == IF Truthy(keyword) THEN Put(p1, "keyword", keyword) ELSE p1
    IN  IF Truthy(title) THEN Put(p2, "title", title) ELSE p2

client_shorten(self, url, keyword, title, t) ==
    request_params(self, "shorturl", shorten_params(url, keyword, title), t)

client_expand(self, shorturl, t) ==
    request_params(self, "expand", [shorturl |-> shorturl], t)

client_url_stats(self, shorturl, t) ==
    request_params(self, "url-stats", [shorturl |-> shorturl], t)

client_db_stats(self, t) ==
    request_params(self, "db-stats", EmptyDict, t)

----------------------------------------------------------------------------
(* mcp/server.py: the tool handlers *)

\* InvocationResult(content_type="application/json", content=json.dumps(d)); the
\* content is kept as the dict handed to json.dumps.
InvocationResult(d) == [content_type |-> "application/json", content |-> d]

\* except Exception as e: ... {"status": "error", "message": str(e)}
ExceptionEnvelope(e) == InvocationResult([status |-> "error", message |-> e.message])

\* An error envelope that also replaces an empty message or code by the default.
ErrorEnvelope_falsy_default(result) ==
    LET message == Get(result, "message", "")
        code    == Get(result, "code", "")
    IN  InvocationResult([status  |-> "error",
                          message |-> IF message = "" THEN "Unknown error" ELSE message,
                          code    |-> IF code = "" THEN "unknown" ELSE code])

\* else: ... {"status": "error", "message": ..., "code": ...}
ErrorEnvelope(result) ==
    InvocationResult([status  |-> "error",
                      message |-> Get(result, "message", "Unknown error"),
                      code    |-> Get(result, "code", "unknown")])

\* A shorten_url that falls back whenever the response's field is empty.
shorten_url_handler_falsy(url, keyword, title, call) ==
    IF call.state = "raised" THEN Returned(ExceptionEnvelope(call))
    ELSE LET result == call.value
             r_url   == Get(result, "url", "")
             r_title == Get(result, "title", "")
         IN  IF "shorturl" \in DOMAIN result
             THEN Returned(InvocationResult(
                      [status   |-> "success",
                       shorturl |-> result["shorturl"],
                       url      |-> IF r_url # "" THEN r_url ELSE url,
                       title    |-> IF r_title # "" THEN r_title
                                    ELSE IF Truthy(title) THEN title ELSE ""]))
             ELSE Returned(ErrorEnvelope(result))

\* The handlers below take the outcome of the client call (Returned / Raised)
\* and give the outcome of the handler.
shorten_url_handler(url, keyword, title, call) ==
    IF call.state = "raised" THEN Returned(ExceptionEnvelope(call))
    ELSE LET result == call.value
         IN  IF "shorturl" \in DOMAIN result
             THEN Returned(InvocationResult(
                      [status   |-> "success",
                       shorturl |-> result["shorturl"],
                       url      |-> Get(result, "url", url),
                       title    |-> Get(result, "title",
                                        IF Truthy(title) THEN title ELSE "")]))
             ELSE Returned(ErrorEnvelope(result))

\* An expand_url whose shorturl defaults to "" and not to the argument.
expand_url_handler_blank_default(shorturl, call) ==
    IF call.state = "raised" THEN Returned(ExceptionEnvelope(call))
    ELSE LET result == call.value
         IN  IF "longurl" \in DOMAIN result
             THEN Returned(InvocationResult(
                      [status   |-> "success",
                       shorturl |-> Get(result, "shorturl", ""),
                       longurl  |-> result["longurl"],
                       title    |-> Get(result, "title", "")]))
             ELSE Returned(ErrorEnvelope(result))

expand_url_handler(shorturl, call) ==
    IF call.state = "raised" THEN Returned(ExceptionEnvelope(call))
    ELSE LET result == call.value
         IN  IF "longurl" \in DOMAIN result
             THEN Returned(InvocationResult(
                      [status   |-> "success",
                       shorturl |-> Get(result, "shorturl", shorturl),
                       longurl  |-> result["longurl"],
                       title    |-> Get(result, "title", "")]))
             ELSE Returned(ErrorEnvelope(result))

url_stats_handler(shorturl, call) ==
    IF call.state = "raised" THEN Returned(ExceptionEnvelope(call))
    ELSE LET result == call.value
         IN  IF "link" \in DOMAIN result
             THEN Returned(InvocationResult(
                      [status   |-> "success",
                       shorturl |-> Get(result, "shorturl", shorturl),
                       clicks   |-> Get(result, "clicks", 0),
                       title    |-> Get(result, "title", ""),
                       longurl  |-> Get(result, "url", "")]))
             ELSE Returned(ErrorEnvelope(result))

\* A db_stats without the except clause: what the client raises, it raises.
db_stats_handler_uncaught(call) ==
    IF call.state = "raised" THEN call
    ELSE LET result == call.value
         IN  IF "db-stats" \in DOMAIN result
             THEN LET stats == result["db-stats"]
                  IN  Returned(InvocationResult(
                          [status       |-> "success",
                           total_links  |-> Get(stats, "total_links", 0),
                           total_clicks |-> Get(stats, "total_clicks", 0)]))
             ELSE Returned(ErrorEnvelope(result))

db_stats_handler(call) ==
    IF call.state = "raised" THEN Returned(ExceptionEnvelope(call))
    ELSE LET result == call.value
         IN  IF "db-stats" \in DOMAIN result
             THEN LET stats == result["db-stats"]
                  IN  Returned(InvocationResult(
                          [status       |-> "success",
                           total_links  |-> Get(stats, "total_links", 0),
                           total_clicks |-> Get(stats, "total_clicks", 0)]))
             ELSE Returned(ErrorEnvelope(result))

----------------------------------------------------------------------------
(* mcp/server.py: create_server *)

required_keys == <<"api_url", "username", "password">>

ToolNames == {"shorten_url", "expand_url", "url_stats", "db_stats"}

create_server(path, fs, env) ==
    LET loading == load_config(path, fs, env)
        config  == loading.value
    IN  IF loading.state = "raised" THEN loading
        ELSE IF config = NoneConfig
        THEN Raised("TypeError", "argument of type 'NoneType' is not iterable")
        ELSE IF "yourls" \notin DOMAIN config
        THEN Raised("ValueError",
                    "Missing YOURLS configuration. Please check your config file.")
        ELSE
        LET yourls_config == config["yourls"]
            Missing(key)  == key \notin DOMAIN yourls_config
            missing_keys  == SelectSeq(required_keys, Missing)
        IN  IF Len(missing_keys) > 0
            THEN Raised("ValueError",
                        "Missing required YOURLS configuration keys: "
                            \o Join(missing_keys, ", "))
            ELSE
            LET client == YourlsClient(yourls_config["api_url"], "password",
                                       yourls_config["username"],
                                       yourls_config["password"],
                                       None, signature_ttl_default)
            IN  IF client.state = "raised" THEN client
                ELSE Returned([name    |-> "YOURLS URL Shortener",
                               version |-> "0.1.0",
                               client  |-> client.value,
                               tools   |-> ToolNames])

----------------------------------------------------------------------------
(* Start-up: the inputs *)

ExplicitConfig == "custom.yaml"

Paths == {ExplicitConfig, CwdConfig, HomeConfig}

EnvVars == {"YOURLS_API_URL", "YOURLS_USERNAME", "YOURLS_PASSWORD"}

\* An environment variable that is set holds a string, possibly the empty one.
EnvValue(v) == {"", "env:" \o v}

\* What yaml.safe_load may read from a configuration file: None, or a mapping,
\* whose every value names its file.
FileShapes(p) ==
    LET url   == "url@" \o p
        user  == "user@" \o p
        pass  == "pass@" \o p
        token == "token@" \o p
    IN  { NoneConfig,
          [log_level |-> "info@" \o p],
          [yourls |-> EmptyDict],
          [yourls |-> [api_url |-> url]],
          [yourls |-> [username |-> user, password |-> pass]],
          [yourls |-> [api_url |-> url, username |-> user, password |-> pass]],
          [yourls |-> [api_url |-> url, signature_token |-> token],
           log_level |-> "info@" \o p] }

\* Every file system: a subset of the candidate paths exists, each holding a document.
FileSystems ==
    UNION { { fs \in [E -> UNION { FileShapes(p) : p \in Paths }] :
                \A p \in E : fs[p] \in FileShapes(p) } : E \in SUBSET Paths }

Environments ==
    UNION { { e \in [S -> UNION { EnvValue(v) : v \in EnvVars }] :
                \A v \in S : e[v] \in EnvValue(v) } : S \in SUBSET EnvVars }

StartupInit ==
    /\ config_path \in {None, ExplicitConfig}
    /\ files \in FileSystems
    /\ environ \in Environments
    /\ loaded = Pending
    /\ server = Pending
    /\ built = Pending
    /\ now = 0
    /\ last = Pending
    /\ calls = <<>>

\* load_config(config_path) is called on its own
LoadConfig ==
    /\ loaded = Pending
    /\ loaded' = load_config(config_path, files, environ)
    /\ UNCHANGED <<config_path, files, environ, server, serving_vars>>

\* create_server(config_path) is called by main()
CreateServer ==
    /\ server = Pending
    /\ server' = create_server(config_path, files, environ)
    /\ UNCHANGED <<config_path, files, environ, loaded, serving_vars>>

StartupNext == LoadConfig \/ CreateServer

SpecStartup == StartupInit /\ [][StartupNext]_vars

----------------------------------------------------------------------------
(* Start-up: properties *)

\* The mapping of the first existing candidate file, read off the file system.
FileConfig ==
    IF config_path # None /\ config_path \in DOMAIN files THEN files[config_path]
    ELSE IF CwdConfig \in DOMAIN files THEN files[CwdConfig]
    ELSE IF HomeConfig \in DOMAIN files THEN files[HomeConfig]
    ELSE EmptyDict

FileSection == IF "yourls" \in DOMAIN FileConfig THEN FileConfig["yourls"] ELSE EmptyDict

EnvField(v) ==
    CASE v = "YOURLS_API_URL"  -> "api_url"
      [] v = "YOURLS_USERNAME" -> "username"
      [] v = "YOURLS_PASSWORD" -> "password"

EnvFields == { EnvField(v) : v \in DOMAIN environ }

\* C9 (as claimed): load_config returns for every file state and environment,
\* and the configuration it returns holds each set environment variable's value
\* at its field of the yourls section (the section is created when the file has
\* none), and holds exactly the file's keys and values everywhere else.
C9_EnvironmentWins ==
    loaded # Pending =>
        /\ loaded.state = "returned"
        /\ LET config  == loaded.value
               section == IF "yourls" \in DOMAIN config THEN config["yourls"] ELSE EmptyDict
           IN  /\ \A v \in DOMAIN environ :
                     /\ "yourls" \in DOMAIN config
                     /\ EnvField(v) \in DOMAIN section
                     /\ section[EnvField(v)] = environ[v]
               /\ DOMAIN config \ {"yourls"} = DOMAIN FileConfig \ {"yourls"}
               /\ \A k \in DOMAIN config \ {"yourls"} : config[k] = FileConfig[k]
               /\ "yourls" \in DOMAIN config
                     <=> ("yourls" \in DOMAIN FileConfig \/ DOMAIN environ # {})
               /\ DOMAIN section \ EnvFields = DOMAIN FileSection \ EnvFields
               /\ \A f \in DOMAIN section \ EnvFields : section[f] = FileSection[f]

\* C9, what does hold: the same statement for the files whose first existing
\* one holds a mapping, and for no file at all.
C9_EnvironmentWinsOverMappings ==
    FileConfig # NoneConfig => C9_EnvironmentWins

\* C9, the scenario of the specification: no candidate file exists, only
\* YOURLS_API_URL is set, and the configuration holds its value nested under the
\* yourls section.
C9_Reach_EnvOnly ==
    /\ DOMAIN files = {}
    /\ DOMAIN environ = {"YOURLS_API_URL"}
    /\ loaded = Returned([yourls |-> [api_url |-> environ["YOURLS_API_URL"]]])

\* A second case of C9: the explicit file is skipped because it does not exist,
\* the file in the working directory holds a signature section, and the
\* environment adds a username beside the file's token.
C9_Reach_Override ==
    /\ config_path = ExplicitConfig
    /\ DOMAIN files = {CwdConfig, HomeConfig}
    /\ "signature_token" \in DOMAIN FileSection
    /\ DOMAIN environ = {"YOURLS_USERNAME"}
    /\ loaded.state = "returned"
    /\ loaded.value["yourls"]["username"] = environ["YOURLS_USERNAME"]
    /\ loaded.value["yourls"]["signature_token"] = "token@" \o CwdConfig

\* C9, the failing case: the first existing file holds no document and a
\* variable is set.
C9_Reach_EmptyFile ==
    /\ FileConfig = NoneConfig
    /\ DOMAIN environ # {}
    /\ loaded.state = "raised"

\* The configuration create_server validates, when load_config gives a mapping.
Resolved ==
    LET loading == load_config(config_path, files, environ)
    IN  loading.state = "returned" /\ loading.value # NoneConfig

ResolvedConfig == load_config(config_path, files, environ).value

ResolvedSection ==
    IF "yourls" \in DOMAIN ResolvedConfig THEN ResolvedConfig["yourls"] ELSE EmptyDict

HoldsPasswordScheme ==
    /\ {"api_url", "username", "password"} \subseteq DOMAIN ResolvedSection
    /\ Truthy(ResolvedSection["username"])
    /\ Truthy(ResolvedSection["password"])

HoldsSignatureScheme ==
    /\ {"api_url", "signature_token"} \subseteq DOMAIN ResolvedSection
    /\ Truthy(ResolvedSection["signature_token"])

\* C4 (as claimed): create_server accepts a yourls section that holds api_url
\* with username and password, or api_url with signature_token, and builds a
\* client in that mode; it fails when the section holds neither scheme's keys,
\* and fails with the missing-configuration error when there is no section.
C4_ValidatesChosenScheme ==
    (server # Pending /\ Resolved) =>
        /\ "yourls" \notin DOMAIN ResolvedConfig =>
              server = Raised("ValueError",
                              "Missing YOURLS configuration. Please check your config file.")
        /\ HoldsPasswordScheme =>
              /\ server.state = "returned"
              /\ server.value.client.auth_method = "password"
        /\ (HoldsSignatureScheme /\ ~HoldsPasswordScheme) =>
              /\ server.state = "returned"
              /\ server.value.client.auth_method = "signature"
        /\ ("yourls" \in DOMAIN ResolvedConfig
               /\ ~HoldsPasswordScheme /\ ~HoldsSignatureScheme) =>
              server.state = "raised"

----------------------------------------------------------------------------
(* Serving: the inputs *)

MaxTime == 3

ApiUrl == "https://example.com/yourls-api.php"

AuthMethods == {"password", "signature", "token"}
Usernames == {None, "", "testuser"}
Passwords == {None, "", "testpass"}
SignatureTokens == {None, "", "1a2b3c"}

Urls == {"https://long.example/path"}
Keywords == {None, "", "abc"}
Titles == {None, "", "My title"}
ShortUrlArgs == {"abc"}

\* The dicts that hold key k with one of the values, or do not hold it.
Opt(k, values) == {EmptyDict} \cup { (k :> v) : v \in values }

Combine(A, B) == { Update(a, b) : a \in A, b \in B }

\* Responses without a success key
ErrorBodies ==
    Combine(Opt("status", {"fail"}),
            Combine(Opt("message", {"", "Error: something went wrong"}),
                    Opt("code", {"error:keyword"})))

ShortenBodies ==
    Combine({[shorturl |-> "https://s.ex/abc", status |-> "success"]},
            Combine(Opt("url", {"", "https://long.example/canonical"}),
                    Opt("title", {"", "Page title"})))
    \cup ErrorBodies

ExpandBodies ==
    Combine({[longurl |-> "https://long.example/path"]},
            Combine(Opt("shorturl", {"https://s.ex/abc"}),
                    Opt("title", {"", "Page title"})))
    \cup ErrorBodies

\* The link object of a url-stats response (tests/api/test_client.py)
LinkObject ==
    [shorturl |-> "https://s.ex/abc", url |-> "https://long.example/path",
     title |-> "Test Title", clicks |-> 42]

StatsBodies ==
    Combine({[link |-> LinkObject]},
            Combine(Combine(Opt("shorturl", {"https://s.ex/abc"}), Opt("clicks", {7})),
                    Combine(Opt("title", {"Page title"}),
                            Opt("url", {"https://long.example/canonical"}))))
    \cup ErrorBodies

DbBodies ==
    { ("db-stats" :> d) :
        d \in Combine(Opt("total_links", {12}), Opt("total_clicks", {345})) }
    \cup ErrorBodies

\* What the backend may do with a request whose JSON answers are `bodies`.
Outcomes(bodies) ==
    { [kind |-> "connection_error"] }
    \cup { [kind |-> "response", status_code |-> 200, json |-> b] : b \in bodies }
    \cup { [kind |-> "response", status_code |-> c, text |-> "<html>"] :
             c \in {200, 302, 404, 500} }
    \cup { [kind |-> "response", status_code |-> c,
            json |-> [message |-> "Error: short URL not found", errorCode |-> "404"]] :
             c \in {302, 404} }

----------------------------------------------------------------------------
(* Serving: one tool invocation after the other *)

Client == built.client.value

CanServe == built # Pending /\ built.client.state = "returned"

Init ==
    /\ config_path = None
    /\ files = EmptyDict
    /\ environ = EmptyDict
    /\ loaded = Pending
    /\ server = Pending
    /\ built = Pending
    /\ now = 0
    /\ last = Pending
    /\ calls = <<>>

\* client = YourlsClient(api_url, auth_method, username, password, signature_token)
NewClient(api_url, auth_method, username, password, signature_token) ==
    /\ built = Pending
    /\ built' = [args   |-> [api_url |-> api_url, auth_method |-> auth_method,
                             username |-> username, password |-> password,
                             signature_token |-> signature_token],
                 client |-> YourlsClient(api_url, auth_method, username, password,
                                         signature_token, signature_ttl_default)]
    /\ UNCHANGED <<startup_vars, now, last, calls>>

Tick ==
    /\ now < MaxTime
    /\ now' = now + 1
    /\ UNCHANGED <<startup_vars, built, last, calls>>

shorten_url(url, keyword, title, outcome) ==
    /\ CanServe
    /\ last = Pending
    /\ last' = [tool    |-> "shorten_url",
                args    |-> [url |-> url, keyword |-> keyword, title |-> title],
                request |-> client_shorten(Client, url, keyword, title, now),
                outcome |-> outcome,
                result  |-> shorten_url_handler(url, keyword, title,
                                                _request_result(Client, outcome))]
    /\ UNCHANGED <<startup_vars, built, now, calls>>

expand_url(shorturl, outcome) ==
    /\ CanServe
    /\ last = Pending
    /\ last' = [tool    |-> "expand_url",
                args    |-> [shorturl |-> shorturl],
                request |-> client_expand(Client, shorturl, now),
                outcome |-> outcome,
                result  |-> expand_url_handler(shorturl, _request_result(Client, outcome))]
    /\ UNCHANGED <<startup_vars, built, now, calls>>

url_stats(shorturl, outcome) ==
    /\ CanServe
    /\ last = Pending
    /\ last' = [tool    |-> "url_stats",
                args    |-> [shorturl |-> shorturl],
                request |-> client_url_stats(Client, shorturl, now),
                outcome |-> outcome,
                result  |-> url_stats_handler(shorturl, _request_result(Client, outcome))]
    /\ UNCHANGED <<startup_vars, built, now, calls>>

db_stats(outcome) ==
    /\ CanServe
    /\ last = Pending
    /\ last' = [tool    |-> "db_stats",
                args    |-> EmptyDict,
                request |-> client_db_stats(Client, now),
                outcome |-> outcome,
                result  |-> db_stats_handler(_request_result(Client, outcome))]
    /\ UNCHANGED <<startup_vars, built, now, calls>>

\* server.run(): the serving loop hands the handler's result to the caller and
\* is ready for the next invocation.
Deliver ==
    /\ last # Pending
    /\ last' = Pending
    /\ UNCHANGED <<startup_vars, built, now, calls>>

Next ==
    \/ \E m \in AuthMethods, u \in Usernames, p \in Passwords, s \in SignatureTokens :
          NewClient(ApiUrl, m, u, p, s)
    \/ Tick
    \/ \E url \in Urls, keyword \in Keywords, title \in Titles,
          outcome \in Outcomes(ShortenBodies) :
          shorten_url(url, keyword, title, outcome)
    \/ \E shorturl \in ShortUrlArgs, outcome \in Outcomes(ExpandBodies) :
          expand_url(shorturl, outcome)
    \/ \E shorturl \in ShortUrlArgs, outcome \in Outcomes(StatsBodies) :
          url_stats(shorturl, outcome)
    \/ \E outcome \in Outcomes(DbBodies) : db_stats(outcome)
    \/ Deliver

Spec == Init /\ [][Next]_vars

----------------------------------------------------------------------------
(* Serving: properties of one invocation *)

Invoked == last # Pending

\* The dict json.dumps was given by the handler that returned
Envelope == last.result.value.content

\* requests.post did not return, or the response has an error status, or its
\* body is not JSON
TransportFailure ==
    \/ last.outcome.kind = "connection_error"
    \/ last.outcome.status_code >= 400
    \/ "json" \notin DOMAIN last.outcome

\* The client call returned the parsed JSON body
Parsed == Invoked /\ ~TransportFailure

Response == last.outcome.json

SuccessKey ==
    CASE last.tool = "shorten_url" -> "shorturl"
      [] last.tool = "expand_url"  -> "longurl"
      [] last.tool = "url_stats"   -> "link"
      [] last.tool = "db_stats"    -> "db-stats"

ActionOf ==
    CASE last.tool = "shorten_url" -> "shorturl"
      [] last.tool = "expand_url"  -> "expand"
      [] last.tool = "url_stats"   -> "url-stats"
      [] last.tool = "db_stats"    -> "db-stats"

\* r[k] when the response holds k, else the default
FieldOr(r, k, default) == IF k \in DOMAIN r THEN r[k] ELSE default

\* C1: every handler, for every argument and every backend outcome, returns an
\* envelope whose status is "success" or "error"; it never raises; and when the
\* transport failed the envelope is {status: "error", message: <the failure's
\* text>}.
C1_AlwaysAnEnvelope ==
    Invoked =>
        /\ last.result.state = "returned"
        /\ last.result.value.content_type = "application/json"
        /\ Envelope["status"] \in {"success", "error"}
        /\ TransportFailure =>
              /\ DOMAIN Envelope = {"status", "message"}
              /\ Envelope["status"] = "error"
              /\ Envelope["message"] # ""
              /\ \/ /\ last.outcome.kind = "connection_error"
                    /\ Envelope["message"] = "Connection refused: " \o ApiUrl
                 \/ /\ last.outcome.kind = "response"
                    /\ last.outcome.status_code \in 400..499
                    /\ Envelope["message"] = ToString(last.outcome.status_code)
                                               \o " Client Error for url: " \o ApiUrl
                 \/ /\ last.outcome.kind = "response"
                    /\ last.outcome.status_code \in 500..599
                    /\ Envelope["message"] = ToString(last.outcome.status_code)
                                               \o " Server Error for url: " \o ApiUrl
                 \/ /\ last.outcome.kind = "response"
                    /\ last.outcome.status_code < 400
                    /\ Envelope["message"] = "Expecting value: line 1 column 1 (char 0)"

\* C1 witness: db_stats got a 500 from the backend and returned an error envelope.
C1_Witness_ServerError ==
    /\ Invoked
    /\ last.tool = "db_stats"
    /\ last.outcome.kind = "response"
    /\ last.outcome.status_code = 500
    /\ last.result.state = "returned"
    /\ Envelope["status"] = "error"

\* C1, the other failures: a refused connection during shorten_url, and an
\* unparsable 200 body during expand_url.
C1_Reach_ConnectionError ==
    /\ Invoked
    /\ last.tool = "shorten_url"
    /\ last.outcome.kind = "connection_error"
    /\ Envelope = [status |-> "error", message |-> "Connection refused: " \o ApiUrl]

C1_Reach_BadBody ==
    /\ Invoked
    /\ last.tool = "expand_url"
    /\ last.outcome = [kind |-> "response", status_code |-> 200, text |-> "<html>"]
    /\ Envelope["status"] = "error"

\* C2: when the parsed response holds the operation's success key the envelope
\* is a success envelope with every field of the operation, each taken from the
\* response when the response holds it and else the default (expand: shorturl =
\* the argument, title = ""; stats: shorturl = the argument, clicks = 0, title =
\* "", longurl = ""; db-stats: total_links = 0, total_clicks = 0).
C2_SuccessEnvelope ==
    (Parsed /\ SuccessKey \in DOMAIN Response) =>
        /\ last.result.state = "returned"
        /\ Envelope["status"] = "success"
        /\ last.tool = "shorten_url" =>
              /\ DOMAIN Envelope = {"status", "shorturl", "url", "title"}
              /\ Envelope["shorturl"] = Response["shorturl"]
        /\ last.tool = "expand_url" =>
              /\ DOMAIN Envelope = {"status", "shorturl", "longurl", "title"}
              /\ Envelope["shorturl"] = FieldOr(Response, "shorturl", last.args.shorturl)
              /\ Envelope["longurl"] = Response["longurl"]
              /\ Envelope["title"] = FieldOr(Response, "title", "")
        /\ last.tool = "url_stats" =>
              /\ DOMAIN Envelope = {"status", "shorturl", "clicks", "title", "longurl"}
              /\ Envelope["shorturl"] = FieldOr(Response, "shorturl", last.args.shorturl)
              /\ Envelope["clicks"] = FieldOr(Response, "clicks", 0)
              /\ Envelope["title"] = FieldOr(Response, "title", "")
              /\ Envelope["longurl"] = FieldOr(Response, "url", "")
        /\ last.tool = "db_stats" =>
              /\ DOMAIN Envelope = {"status", "total_links", "total_clicks"}
              /\ Envelope["total_links"] = FieldOr(Response["db-stats"], "total_links", 0)
              /\ Envelope["total_clicks"] = FieldOr(Response["db-stats"], "total_clicks", 0)

\* C2 witness: expand_url of a response with longurl and nothing else returns
\* the argument as shorturl and "" as title.
C2_Witness_ExpandDefaults ==
    /\ Parsed
    /\ last.tool = "expand_url"
    /\ DOMAIN Response = {"longurl"}
    /\ Envelope = [status |-> "success", shorturl |-> last.args.shorturl,
                   longurl |-> Response["longurl"], title |-> ""]

\* C2, the other operations with every optional field absent.
C2_Reach_StatsDefaults ==
    /\ Parsed
    /\ last.tool = "url_stats"
    /\ DOMAIN Response = {"link"}
    /\ Envelope = [status |-> "success", shorturl |-> last.args.shorturl,
                   clicks |-> 0, title |-> "", longurl |-> ""]

C2_Reach_DbDefaults ==
    /\ Parsed
    /\ last.tool = "db_stats"
    /\ DOMAIN Response = {"db-stats"}
    /\ DOMAIN Response["db-stats"] = {}
    /\ Envelope = [status |-> "success", total_links |-> 0, total_clicks |-> 0]

\* C3: when the parsed response lacks the operation's success key the envelope
\* is {status: "error", message, code}, the message being the response's, or
\* "Unknown error" when the response holds none, and the code the response's,
\* or "unknown" when the response holds none.
C3_ErrorEnvelope ==
    (Parsed /\ SuccessKey \notin DOMAIN Response) =>
        /\ last.result.state = "returned"
        /\ DOMAIN Envelope = {"status", "message", "code"}
        /\ Envelope["status"] = "error"
        /\ Envelope["message"] = FieldOr(Response, "message", "Unknown error")
        /\ Envelope["code"] = FieldOr(Response, "code", "unknown")

\* C3 witness: url_stats of a response that only says status: fail returns both
\* defaults.
C3_Witness_Defaults ==
    /\ Parsed
    /\ last.tool = "url_stats"
    /\ Response = [status |-> "fail"]
    /\ Envelope = [status |-> "error", message |-> "Unknown error", code |-> "unknown"]

\* C3, with the backend's own message and code, for shorten_url.
C3_Reach_BackendMessage ==
    /\ Parsed
    /\ last.tool = "shorten_url"
    /\ {"message", "code"} \subseteq DOMAIN Response
    /\ Response["message"] # ""
    /\ Envelope = [status |-> "error", message |-> Response["message"],
                   code |-> Response["code"]]

\* C6: in password mode the request of every operation holds the username and
\* the password the client was constructed with, holds neither timestamp nor
\* signature, and holds the operation's action and format = json.
C6_StaticAuthVerbatim ==
    (Invoked /\ Client.auth_method = "password") =>
        /\ {"action", "format", "username", "password"} \subseteq DOMAIN last.request
        /\ last.request["username"] = built.args.username
        /\ last.request["password"] = built.args.password
        /\ "timestamp" \notin DOMAIN last.request
        /\ "signature" \notin DOMAIN last.request
        /\ last.request["action"] = ActionOf
        /\ last.request["format"] = "json"

\* C6 witness: a password-mode shorten request with a keyword.
C6_Witness_Shorten ==
    /\ Invoked
    /\ Client.auth_method = "password"
    /\ last.tool = "shorten_url"
    /\ last.request = [action |-> "shorturl", format |-> "json",
                       url |-> last.args.url, keyword |-> "abc",
                       username |-> "testuser", password |-> "testpass"]

\* C7: construction raises ValueError exactly when the method is "password" and
\* the username or the password is None or empty, or the method is "signature"
\* and the token is None or empty, or the method is neither; otherwise it
\* returns a client of the given method.
C7_ConstructionFailsExactly ==
    built # Pending =>
        LET a == built.args
            blank(v) == v = None \/ v = ""
            must_fail ==
                \/ a.auth_method = "password" /\ (blank(a.username) \/ blank(a.password))
                \/ a.auth_method = "signature" /\ blank(a.signature_token)
                \/ a.auth_method \notin {"password", "signature"}
        IN  /\ must_fail <=> built.client.state = "raised"
            /\ must_fail => built.client.exc = "ValueError"
            /\ ~must_fail =>
                  /\ built.client.state = "returned"
                  /\ built.client.value.auth_method = a.auth_method
                  /\ built.client.value.api_url = a.api_url

\* C7 witness: password mode with a username and an empty password fails.
C7_Witness_EmptyPassword ==
    /\ built # Pending
    /\ built.args.auth_method = "password"
    /\ built.args.username = "testuser"
    /\ built.args.password = ""
    /\ built.client.state = "raised"

\* C7, the cases that succeed and the unknown method.
C7_Reach_SignatureClient ==
    /\ built # Pending
    /\ built.args.auth_method = "signature"
    /\ built.args.username = None
    /\ built.client.state = "returned"

C7_Reach_UnknownMethod ==
    /\ built # Pending
    /\ built.args.auth_method = "token"
    /\ built.args.username = "testuser"
    /\ built.args.password = "testpass"
    /\ built.args.signature_token = "1a2b3c"
    /\ built.client.state = "raised"

\* C8 (as claimed): for shorten, when the response holds shorturl, the
\* envelope's url is the response's url when that is non-empty and else the
\* argument, and its title is the response's title when that is non-empty, else
\* the title argument when one was given, else "".
C8_NonEmptyResponseFieldWins ==
    (Parsed /\ last.tool = "shorten_url" /\ "shorturl" \in DOMAIN Response) =>
        /\ Envelope["url"] =
              IF "url" \in DOMAIN Response /\ Response["url"] # ""
              THEN Response["url"] ELSE last.args.url
        /\ Envelope["title"] =
              IF "title" \in DOMAIN Response /\ Response["title"] # ""
              THEN Response["title"]
              ELSE IF last.args.title # None THEN last.args.title ELSE ""

\* C8 (amended): for shorten, when the response holds shorturl, the envelope's
\* url is the response's url whenever the response holds a url key, even an
\* empty one, and else the argument; its title is the response's title whenever
\* the response holds a title key, even an empty one, else the title argument
\* when one was given, else "".
C8_PresentResponseFieldWins ==
    (Parsed /\ last.tool = "shorten_url" /\ "shorturl" \in DOMAIN Response) =>
        /\ Envelope["status"] = "success"
        /\ Envelope["shorturl"] = Response["shorturl"]
        /\ Envelope["url"] =
              IF "url" \in DOMAIN Response THEN Response["url"] ELSE last.args.url
        /\ Envelope["title"] =
              IF "title" \in DOMAIN Response THEN Response["title"]
              ELSE IF last.args.title # None THEN last.args.title ELSE ""

\* C8 witness: shorten(url, keyword = "abc", title = None) against a response
\* holding only shorturl and status.
C8_Witness_Scenario ==
    /\ Parsed
    /\ last.tool = "shorten_url"
    /\ last.args.keyword = "abc"
    /\ last.args.title = None
    /\ Response = [shorturl |-> "https://s.ex/abc", status |-> "success"]
    /\ Envelope = [status |-> "success", shorturl |-> "https://s.ex/abc",
                   url |-> last.args.url, title |-> ""]

\* C8, where the amendment differs: the response holds an empty title and the
\* caller gave one; the envelope's title is the empty one.
C8_Reach_EmptyResponseTitle ==
    /\ Parsed
    /\ last.tool = "shorten_url"
    /\ "shorturl" \in DOMAIN Response
    /\ "title" \in DOMAIN Response
    /\ Response["title"] = ""
    /\ last.args.title = "My title"
    /\ Envelope["title"] = ""

\* C10: a shorten request holds keyword (title) exactly when the keyword
\* (title) argument is neither None nor empty, then with the argument's value;
\* it never holds an empty keyword or title; it always holds url.
C10_OptionalParamsOnlyWhenGiven ==
    (Invoked /\ last.tool = "shorten_url") =>
        /\ "url" \in DOMAIN last.request
        /\ last.request["url"] = last.args.url
        /\ "keyword" \in DOMAIN last.request
              <=> (last.args.keyword # None /\ last.args.keyword # "")
        /\ "title" \in DOMAIN last.request
              <=> (last.args.title # None /\ last.args.title # "")
        /\ "keyword" \in DOMAIN last.request =>
              last.request["keyword"] = last.args.keyword
        /\ "title" \in DOMAIN last.request =>
              last.request["title"] = last.args.title

\* C10 witness: an empty keyword with a title: the request holds the title and
\* no keyword.
C10_Witness_EmptyKeyword ==
    /\ Invoked
    /\ last.tool = "shorten_url"
    /\ last.args.keyword = ""
    /\ last.args.title = "My title"
    /\ "keyword" \notin DOMAIN last.request
    /\ last.request["title"] = "My title"

----------------------------------------------------------------------------
(* Serving: invocations in flight together *)

MaxCalls == 2

\* The tool the serving loop dispatches to: the request its client call sends
\* at tick t, and the handler's result for the outcome of that call.
ToolRequest(self, tool, args, t) ==
    CASE tool = "shorten_url" -> client_shorten(self, args.url, args.keyword, args.title, t)
      [] tool = "expand_url"  -> client_expand(self, args.shorturl, t)
      [] tool = "url_stats"   -> client_url_stats(self, args.shorturl, t)
      [] tool = "db_stats"    -> client_db_stats(self, t)

ToolResult(tool, args, call) ==
    CASE tool = "shorten_url" -> shorten_url_handler(args.url, args.keyword, args.title, call)
      [] tool = "expand_url"  -> expand_url_handler(args.shorturl, call)
      [] tool = "url_stats"   -> url_stats_handler(args.shorturl, call)
      [] tool = "db_stats"    -> db_stats_handler(call)

Invocations ==
    { [tool |-> "shorten_url",
       args |-> [url |-> "https://long.example/path", keyword |-> "abc", title |-> None]],
      [tool |-> "expand_url", args |-> [shorturl |-> "abc"]],
      [tool |-> "url_stats",  args |-> [shorturl |-> "abc"]],
      [tool |-> "db_stats",   args |-> EmptyDict] }

BackendAnswers(tool) ==
    { [kind |-> "connection_error"],
      [kind |-> "response", status_code |-> 200,
       json |-> [status |-> "fail", message |-> "Error: something went wrong"]],
      [kind |-> "response", status_code |-> 200,
       json |-> CASE tool = "shorten_url" ->
                       [shorturl |-> "https://s.ex/abc", status |-> "success"]
                  [] tool = "expand_url" -> [longurl |-> "https://long.example/path"]
                  [] tool = "url_stats" -> [link |-> LinkObject]
                  [] tool = "db_stats" ->
                       ("db-stats" :> [total_links |-> 12, total_clicks |-> 345])] }

\* The clients the invocations run on: one of each mode.
ServingClients ==
    { [args   |-> [api_url |-> ApiUrl, auth_method |-> m, username |-> u,
                   password |-> p, signature_token |-> s],
       client |-> YourlsClient(ApiUrl, m, u, p, s, signature_ttl_default)] :
        <<m, u, p, s>> \in { <<"password", "testuser", "testpass", None>>,
                             <<"signature", None, None, "1a2b3c">> } }

ConcInit ==
    /\ config_path = None
    /\ files = EmptyDict
    /\ environ = EmptyDict
    /\ loaded = Pending
    /\ server = Pending
    /\ built \in ServingClients
    /\ now = 0
    /\ last = Pending
    /\ calls = <<>>

\* A handler is entered and runs up to requests.post: the request is built from
\* the clock as it stands and sent.  posts counts the requests.post calls the
\* invocation has made: the handler calls one client method, that method calls
\* _request once, and _request calls requests.post once.
Invoke(tool, args) ==
    /\ Len(calls) < MaxCalls
    /\ calls' = Append(calls, [tool    |-> tool,
                               args    |-> args,
                               sent_at |-> now,
                               request |-> ToolRequest(Client, tool, args, now),
                               posts   |-> 1,
                               state   |-> "in_flight"])
    /\ UNCHANGED <<startup_vars, built, now, last>>

\* A handler that posts again when the call failed in transport, and stays in
\* flight.
Complete_retry(i, outcome) ==
    /\ calls[i].state = "in_flight"
    /\ calls' = [calls EXCEPT ![i] =
                    IF _request_result(Client, outcome).state = "raised"
                    THEN [tool    |-> calls[i].tool,
                          args    |-> calls[i].args,
                          sent_at |-> calls[i].sent_at,
                          request |-> calls[i].request,
                          posts   |-> calls[i].posts + 1,
                          state   |-> "in_flight"]
                    ELSE [tool    |-> calls[i].tool,
                          args    |-> calls[i].args,
                          sent_at |-> calls[i].sent_at,
                          request |-> calls[i].request,
                          posts   |-> calls[i].posts,
                          state   |-> "done",
                          outcome |-> outcome,
                          result  |-> ToolResult(calls[i].tool, calls[i].args,
                                                 _request_result(Client, outcome))]]
    /\ UNCHANGED <<startup_vars, built, now, last>>

\* requests.post comes back for call i and its handler runs to its return.
Complete(i, outcome) ==
    /\ calls[i].state = "in_flight"
    /\ calls' = [calls EXCEPT ![i] =
                    [tool    |-> calls[i].tool,
                     args    |-> calls[i].args,
                     sent_at |-> calls[i].sent_at,
                     request |-> calls[i].request,
                     posts   |-> calls[i].posts,
                     state   |-> "done",
                     outcome |-> outcome,
                     result  |-> ToolResult(calls[i].tool, calls[i].args,
                                            _request_result(Client, outcome))]]
    /\ UNCHANGED <<startup_vars, built, now, last>>

ClockTick ==
    /\ now < MaxTime
    /\ now' = now + 1
    /\ UNCHANGED <<startup_vars, built, last, calls>>

ConcNext ==
    \/ \E inv \in Invocations : Invoke(inv.tool, inv.args)
    \/ \E i \in DOMAIN calls : \E outcome \in BackendAnswers(calls[i].tool) :
          Complete(i, outcome)
    \/ ClockTick

SpecConc == ConcInit /\ [][ConcNext]_vars

\* The action parameter each tool's client method sends
ActionOfTool(tool) ==
    CASE tool = "shorten_url" -> "shorturl"
      [] tool = "expand_url"  -> "expand"
      [] tool = "url_stats"   -> "url-stats"
      [] tool = "db_stats"    -> "db-stats"

\* The requests sent in signature mode
Signed(i) == i \in DOMAIN calls /\ Client.auth_method = "signature"

AuthPair(i) == <<calls[i].request["timestamp"], calls[i].request["signature"]>>

\* C5: in signature mode every request holds the unix time of its sending, as a
\* string, and the md5 hex digest of that timestamp followed by the token; and
\* two requests sent more than a second apart hold different
\* timestamp/signature pairs, whatever else was sent or answered in between.
C5_FreshSignaturePerRequest ==
    /\ \A i \in DOMAIN calls : Signed(i) =>
          /\ {"timestamp", "signature"} \subseteq DOMAIN calls[i].request
          /\ calls[i].request["timestamp"] = ToString(calls[i].sent_at \div TicksPerSecond)
          /\ calls[i].request["signature"] =
                md5_hexdigest(calls[i].request["timestamp"] \o built.args.signature_token)
    /\ \A i, j \in DOMAIN calls :
          (Signed(i) /\ Signed(j) /\ calls[j].sent_at - calls[i].sent_at > TicksPerSecond)
              => AuthPair(i) # AuthPair(j)

\* C5 witness: two signed requests in flight together, the second sent more
\* than a second after the first, each with the timestamp of its own sending.
C5_Witness_TwoSeconds ==
    /\ Len(calls) = 2
    /\ Client.auth_method = "signature"
    /\ calls[1].state = "in_flight"
    /\ calls[2].state = "in_flight"
    /\ calls[1].sent_at = 0
    /\ calls[2].sent_at > TicksPerSecond
    /\ calls[1].request["timestamp"] = "0"
    /\ calls[2].request["timestamp"] = "1"
    /\ AuthPair(1) # AuthPair(2)

----------------------------------------------------------------------------
(* Serving: independence of the invocations *)

Done(i) == i \in DOMAIN calls /\ calls[i].state = "done"

\* The invocation's client call raised: no connection, a 4xx/5xx status, or a
\* body that is not JSON.
Failed(i) == Done(i) /\ _request_result(Client, calls[i].outcome).state = "raised"

CallEnvelope(i) == calls[i].result.value.content

\* What holds of the invocations in every state: one POST each, and one envelope
\* exactly when the invocation is done; a failed one has the error envelope of
\* its own failure; and invocations alike in tool, arguments and backend answer
\* have the same envelope, those alike in tool, arguments and second of sending
\* the same request, whatever happened to the other one.
OnePostOneEnvelope ==
    /\ \A i \in DOMAIN calls :
          /\ calls[i].posts = 1
          /\ calls[i].request["action"] = ActionOfTool(calls[i].tool)
          /\ calls[i].state \in {"in_flight", "done"}
          /\ Done(i) <=> "result" \in DOMAIN calls[i]
          /\ Done(i) =>
                /\ calls[i].result.state = "returned"
                /\ calls[i].result.value.content_type = "application/json"
                /\ CallEnvelope(i).status \in {"success", "error"}
          /\ Failed(i) =>
                /\ CallEnvelope(i).status = "error"
                /\ CallEnvelope(i).message =
                      _request_result(Client, calls[i].outcome).message
    /\ \A i, j \in DOMAIN calls :
          (calls[i].tool = calls[j].tool /\ calls[i].args = calls[j].args) =>
              /\ (Done(i) /\ Done(j) /\ calls[i].outcome = calls[j].outcome)
                    => calls[i].result = calls[j].result
              /\ (calls[i].sent_at \div TicksPerSecond = calls[j].sent_at \div TicksPerSecond)
                    => calls[i].request = calls[j].request

\* What holds of every step: no invocation disappears, the request an invocation
\* sent and its count of POSTs stay as they were, an invocation that is done
\* stays exactly as it is (its envelope included), and a step that completes
\* one invocation leaves every other one untouched.
StepsLeaveOthersAlone ==
    /\ DOMAIN calls \subseteq DOMAIN calls'
    /\ \A i \in DOMAIN calls :
          /\ calls'[i].request = calls[i].request
          /\ calls'[i].posts = calls[i].posts
          /\ Done(i) => calls'[i] = calls[i]
          /\ calls'[i] # calls[i] =>
                \A j \in DOMAIN calls \ {i} : calls'[j] = calls[j]

----------------------------------------------------------------------------
(* Serving: url_stats on the nested url-stats response *)

\* The url-stats response holds the link's data inside the object under link
\* and none of it beside link (the response of tests/api/test_client.py).
NestedLinkResponse ==
    /\ Parsed
    /\ last.tool = "url_stats"
    /\ "link" \in DOMAIN Response
    /\ {"url", "title", "clicks"} \subseteq DOMAIN Response["link"]
    /\ DOMAIN Response \cap {"url", "title", "clicks"} = {}

\* C12: when the url-stats response carries the link's data inside the object
\* under link, the url_stats success envelope reports that link's click count,
\* title and long URL, not the defaults 0, "" and "".
C12_ReportsNestedLink ==
    NestedLinkResponse =>
        /\ Envelope.status = "success"
        /\ Envelope.clicks = Response["link"].clicks
        /\ Envelope.title = Response["link"].title
        /\ Envelope.longurl = Response["link"].url

\* What url_stats returns for that response: a success envelope holding the
\* defaults, although the link has 42 clicks, a title and a long URL.
C12_Reach_DefaultsForNestedLink ==
    /\ NestedLinkResponse
    /\ Response["link"].clicks = 42
    /\ Envelope.status = "success"
    /\ Envelope.clicks = 0
    /\ Envelope.title = ""
    /\ Envelope.longurl = ""

====
